---- MODULE Spec2Model ----
(***************************************************************************)
(* Model of the speaker/emotion encoder training driver                    *)
(* (TTS/bin/train_encoder.py) and of the validation of its configuration   *)
(* (TTS/encoder/configs/base_encoder_config.py).                           *)
(*                                                                         *)
(* Spec       the life of one process: init_training, main (setup,         *)
(*            restore, scheduler), train (one action per batch) and the    *)
(*            handlers of the __main__ block.                              *)
(* SpecGroup  the batch grouping transform of train(), applied to every    *)
(*            batch the sampler can hand over within the bounds.           *)
(*                                                                         *)
(* Losses and averages are fixed-point numbers: Unit stands for 1.0.       *)
(***************************************************************************)
EXTENDS Integers, Sequences, FiniteSets

VARIABLES
    pc,             \* position of the process
    c,              \* the configuration (global c): the fields the specification reads
    args,           \* args.restore_path (given or not), args.restore_step
    validated,      \* outcome of check_values
    resources,      \* training resources allocated by main
    checkpoint,     \* the checkpoint loaded by load_fsspec
    model,          \* model parameters: name -> [shape, val]
    criterion,      \* where the criterion's parameters come from
    load_path,      \* "none", "strict" or "partial"
    lr,             \* optimizer.param_groups[i]["lr"]
    loader_len,     \* len(data_loader)
    drawn,          \* batches drawn from the data loader so far
    global_step,
    avg_loss,
    best_loss,
    prev_avg,       \* avg_loss before the last processed batch
    last_loss,      \* loss.item() of the last processed batch
    processed,      \* step numbers under which a batch was processed
    save_calls,     \* step numbers at which save_best_model was called
    written,        \* step numbers at which a checkpoint was written
    exc,            \* exception travelling to the __main__ block
    folder,         \* the experiment folder OUT_PATH exists
    exit_code,      \* exit code of the process, -1 while it runs
    gphase,         \* grouping: "drawn" or "grouped"
    labels_in,      \* labels as collated by the loader
    inputs_in,      \* inputs as collated by the loader
    labels,         \* labels after line 84
    inputs          \* inputs after line 85

mainvars  == <<pc, c, args, validated, resources, checkpoint, model, criterion,
               load_path, lr, loader_len, drawn, global_step, avg_loss,
               best_loss, prev_avg, last_loss, processed, save_calls, written,
               exc, folder, exit_code>>
groupvars == <<gphase, labels_in, inputs_in, labels, inputs>>
vars      == <<mainvars, groupvars>>

(***************************************************************************)
(* Bounds                                                                  *)
(***************************************************************************)
MaxTrainStep     == 3   \* largest max_train_step tried
MaxSaveStep      == 3   \* largest save_step tried
MaxLoaderLen     == 3   \* longest data loader tried
MaxRestoreStep   == 2   \* largest step stored in a checkpoint
MaxLoss          == 1   \* losses are 0 .. MaxLoss, in units of 1.0
MaxUtterPerClass == 3
MaxClassesInBatch == 3
MaxBatch         == 6   \* largest batch size tried
MaxFeature       == 2   \* feature rows are 1 .. MaxFeature

(***************************************************************************)
(* Program constants                                                       *)
(***************************************************************************)
Unit      == 100        \* fixed point: 1.0
Inf       == 1000000    \* float("inf"): above every loss
CfgLr     == 1          \* c.lr, in units of the default 0.0001
NumGroups == 1          \* RAdam(model.parameters(), ...) builds one group

LossValues == {l * Unit : l \in 0 .. MaxLoss}
LrValues   == {CfgLr, CfgLr + 1}
LossKinds  == {"ge2e", "angleproto", "softmaxproto", "other"}
Dims       == {40, 80}  \* feature dimensions tried; 80 is the default of both

(***************************************************************************)
(* Configuration: BaseEncoderConfig                                        *)
(***************************************************************************)
Configs ==
    [input_dim      : Dims,
     num_mels       : Dims,
     max_train_step : 1 .. MaxTrainStep,
     save_step      : 1 .. MaxSaveStep,
     lr_decay       : BOOLEAN,
     loss           : LossKinds,
     lr             : {CfgLr}]

\* check_values with the comparison of the two dimensions left out
check_values_no_assert(cfg, super_ok) ==
    IF ~super_ok THEN "super_failed" ELSE "ok"

\* BaseEncoderConfig.check_values: super().check_values(), then the assert
check_values(cfg, super_ok) ==
    IF ~super_ok THEN "super_failed"
    ELSE IF cfg.input_dim = cfg.num_mels THEN "ok"
    ELSE "assert_failed"

(***************************************************************************)
(* Model, criterion and checkpoint                                         *)
(***************************************************************************)
ModelNames == {"w1", "w2"}
CkptNames  == {"w1", "w2", "w3"}
Shapes     == {1, 2}

FreshShape(n) == IF n = "w1" THEN 1 ELSE 2

\* setup_speaker_encoder_model(c): every parameter freshly initialized
FreshModel == [n \in ModelNames |-> [shape |-> FreshShape(n), val |-> "init"]]

\* state dicts a checkpoint can hold under "model": name -> shape, as pairs
StateDicts ==
    {sd \in SUBSET (CkptNames \X Shapes) :
        \A p \in sd, q \in sd : p[1] = q[1] => p = q}

NoCheckpoint ==
    [hasModel |-> FALSE, model |-> {}, crit |-> "absent",
     hasStep |-> FALSE, step |-> 0]

\* what load_fsspec can return
Checkpoints ==
    {ck \in [hasModel : BOOLEAN, model : StateDicts,
             crit : {"absent", "match", "mismatch"},
             hasStep : BOOLEAN, step : 0 .. MaxRestoreStep] :
        /\ ~ck.hasModel => ck.model = {}
        /\ ~ck.hasStep => ck.step = 0}

Keys(sd) == {p[1] : p \in sd}

\* the entries of sd that the model holds under the same name and shape
Matching(m, sd) == {n \in DOMAIN m : <<n, m[n].shape>> \in sd}

\* strict load_state_dict succeeds: same keys, same shapes
StrictOK(m, sd) == Keys(sd) = DOMAIN m /\ Matching(m, sd) = DOMAIN m

\* parameters of m overwritten by the entries of sd named in ns
CopyInto(m, ns) ==
    [n \in DOMAIN m |-> IF n \in ns THEN [m[n] EXCEPT !.val = "ckpt"] ELSE m[n]]

\* set_init_dict(model_dict, checkpoint["model"], c) followed by
\* model.load_state_dict(model_dict): matching entries copied, others kept
set_init_dict(m, sd) == CopyInto(m, Matching(m, sd))

\* except (KeyError, RuntimeError) with RuntimeError left out
CaughtKeyErrorOnly(e) == e = "KeyError"

\* except (KeyError, RuntimeError)
Caught(e) == e \in {"KeyError", "RuntimeError"}

(***************************************************************************)
(* train(): the pieces of one iteration                                    *)
(***************************************************************************)
\* 0.01 * loss + 0.99 * avg, in fixed point
Ema(loss, avg) == (loss + 99 * avg) \div 100

\* line 128: avg_loss = 0.01 * loss + 0.99 * avg_loss if avg_loss != 0 else loss
avg_loss_update(loss, avg) ==
    IF avg # 0 THEN Ema(loss, avg) ELSE loss

\* line 162 without the step budget
SaveTriggerSaveStepOnly(step) == step % c.save_step = 0

\* line 162: global_step >= c.max_train_step or global_step % c.save_step == 0
SaveTrigger(step) ==
    step >= c.max_train_step \/ step % c.save_step = 0

\* line 166 with > for >=
BreakCondOffByOne(step) == step > c.max_train_step

\* line 166 without the break
BreakCondNever(step) == FALSE

\* line 166: if global_step >= c.max_train_step: break
BreakCond(step) == step >= c.max_train_step

\* save_best_model: writes a checkpoint when the loss beats the watermark and
\* returns the new watermark
save_best_model(loss, best) ==
    IF loss < best THEN [best |-> loss, wrote |-> TRUE]
    ELSE [best |-> best, wrote |-> FALSE]

(***************************************************************************)
(* The process                                                             *)
(***************************************************************************)
MainPcs == {"main", "restore", "loaded", "scheduler", "train", "returned"}

GroupIdle ==
    /\ gphase = "off"
    /\ labels_in = <<>> /\ inputs_in = <<>>
    /\ labels = <<>> /\ inputs = <<>>

Init ==
    /\ pc = "init"
    /\ c \in Configs
    /\ args \in [restore_path : BOOLEAN, restore_step : {0}]
    /\ validated = "pending"
    /\ resources = {}
    /\ checkpoint = NoCheckpoint
    /\ model = FreshModel
    /\ criterion = "fresh"
    /\ load_path = "none"
    /\ lr = [g \in 1 .. NumGroups |-> CfgLr]
    /\ loader_len = 0
    /\ drawn = 0
    /\ global_step = 0
    /\ avg_loss = 0
    /\ best_loss = Inf
    /\ prev_avg = 0
    /\ last_loss = 0
    /\ processed = {}
    /\ save_calls = {}
    /\ written = {}
    /\ exc = "none"
    /\ folder = TRUE
    /\ exit_code = -1
    /\ GroupIdle

\* init_training(): the configuration is loaded and validated; a failed
\* validation is raised outside the try block of __main__
InitTraining ==
    /\ pc = "init"
    /\ \E super_ok \in BOOLEAN :
        /\ validated' = check_values(c, super_ok)
        /\ IF validated' = "ok"
           THEN pc' = "main" /\ exit_code' = exit_code
           ELSE pc' = "exited" /\ exit_code' = 1
    /\ UNCHANGED <<c, args, resources, checkpoint, model, criterion, load_path,
                   lr, loader_len, drawn, global_step, avg_loss, best_loss,
                   prev_avg, last_loss, processed, save_calls, written, exc,
                   folder, groupvars>>

\* main, lines 179-201: audio processor, model, optimizer, loader, criterion
MainSetup ==
    /\ pc = "main"
    /\ model' = FreshModel
    /\ lr' = [g \in 1 .. NumGroups |-> c.lr]
    /\ IF c.loss \in {"ge2e", "angleproto", "softmaxproto"}
       THEN /\ resources' = {"model", "optimizer", "loader", "criterion"}
            /\ criterion' = "fresh"
            /\ pc' = "restore"
            /\ exc' = exc
       ELSE /\ resources' = {"model", "optimizer", "loader"}
            /\ criterion' = criterion
            /\ pc' = "raised"
            /\ exc' = "Exception"
    /\ UNCHANGED <<c, args, validated, checkpoint, load_path, loader_len,
                   drawn, global_step, avg_loss, best_loss, prev_avg, last_loss,
                   processed, save_calls, written, folder, exit_code, groupvars>>

\* main, lines 203-204: checkpoint = load_fsspec(args.restore_path)
LoadCheckpoint ==
    /\ pc = "restore"
    /\ args.restore_path
    /\ checkpoint' \in Checkpoints
    /\ pc' = "loaded"
    /\ UNCHANGED <<c, args, validated, resources, model, criterion, load_path,
                   lr, loader_len, drawn, global_step, avg_loss, best_loss,
                   prev_avg, last_loss, processed, save_calls, written, exc,
                   folder, exit_code, groupvars>>

\* main, lines 222-223: no restore path
NoRestore ==
    /\ pc = "restore"
    /\ ~args.restore_path
    /\ args' = [args EXCEPT !.restore_step = 0]
    /\ pc' = "scheduler"
    /\ UNCHANGED <<c, validated, resources, checkpoint, model, criterion,
                   load_path, lr, loader_len, drawn, global_step, avg_loss,
                   best_loss, prev_avg, last_loss, processed, save_calls,
                   written, exc, folder, exit_code, groupvars>>

\* lines 206-209, the try block: strict load of the model, then of the
\* criterion when the checkpoint holds one.  load_state_dict copies the
\* entries that match before it raises for those that do not.
TryStrictLoad(m, ck) ==
    IF ~ck.hasModel
    THEN [exc |-> "KeyError", model |-> m, criterion |-> "fresh"]
    ELSE IF ~StrictOK(m, ck.model)
    THEN [exc |-> "RuntimeError", model |-> CopyInto(m, Matching(m, ck.model)),
          criterion |-> "fresh"]
    ELSE IF ck.crit = "mismatch"
    THEN [exc |-> "RuntimeError", model |-> CopyInto(m, DOMAIN m),
          criterion |-> "fresh"]
    ELSE [exc |-> "none", model |-> CopyInto(m, DOMAIN m),
          criterion |-> IF ck.crit = "match" THEN "ckpt" ELSE "fresh"]

\* lines 205-216: the try block and its except clause
LoadModel(m, ck) ==
    LET t == TryStrictLoad(m, ck) IN
    IF t.exc = "none"
    THEN [exc |-> "none", model |-> t.model, criterion |-> t.criterion,
          load_path |-> "strict"]
    ELSE IF ~Caught(t.exc)
    THEN [exc |-> t.exc, model |-> t.model, criterion |-> t.criterion,
          load_path |-> "none"]
    ELSE IF ~ck.hasModel
    THEN [exc |-> "KeyError", model |-> t.model, criterion |-> t.criterion,
          load_path |-> "none"]
    ELSE [exc |-> "none", model |-> set_init_dict(t.model, ck.model),
          criterion |-> t.criterion, load_path |-> "partial"]

\* lines 217-218: for group in optimizer.param_groups: group["lr"] = c.lr
ResetLr(groups) == [g \in DOMAIN groups |-> c.lr]

\* line 221 starting over from zero
RestoreStepZero(ck) == 0

\* line 221: args.restore_step = checkpoint["step"]
RestoreStep(ck) == ck.step

\* main, lines 205-221: restore from the loaded checkpoint
RestoreFromCheckpoint ==
    /\ pc = "loaded"
    /\ LET r == LoadModel(model, checkpoint) IN
        /\ model' = r.model
        /\ criterion' = r.criterion
        /\ IF r.exc # "none"
           THEN /\ pc' = "raised"
                /\ exc' = r.exc
                /\ UNCHANGED <<lr, args, load_path>>
           ELSE /\ lr' = ResetLr(lr)
                /\ load_path' = r.load_path
                /\ IF checkpoint.hasStep
                   THEN /\ args' = [args EXCEPT !.restore_step = RestoreStep(checkpoint)]
                        /\ pc' = "scheduler"
                        /\ exc' = exc
                   ELSE /\ args' = args
                        /\ pc' = "raised"
                        /\ exc' = "KeyError"
    /\ checkpoint' = NoCheckpoint
    /\ UNCHANGED <<c, validated, resources, loader_len, drawn, global_step,
                   avg_loss, best_loss, prev_avg, last_loss, processed,
                   save_calls, written, folder, exit_code, groupvars>>

\* main, lines 225-238: scheduler, device, global_step = args.restore_step and
\* the call of train(), which reads len(data_loader) first (line 77)
StartTrain ==
    /\ pc = "scheduler"
    /\ global_step' = args.restore_step
    /\ loader_len' \in 0 .. MaxLoaderLen
    /\ drawn' = 0
    /\ best_loss' = Inf
    /\ avg_loss' = 0
    /\ pc' = "train"
    /\ UNCHANGED <<c, args, validated, resources, checkpoint, model, criterion,
                   load_path, lr, prev_avg, last_loss, processed, save_calls,
                   written, exc, folder, exit_code, groupvars>>

\* train, lines 78-169: one iteration of the loop, with the loss the
\* criterion returns and the rate the scheduler sets
TrainStep ==
    /\ pc = "train"
    /\ drawn < loader_len
    /\ \E loss \in LossValues, sched \in LrValues :
        LET step == global_step + 1
            avg  == avg_loss_update(loss, avg_loss)
            sv   == save_best_model(avg, best_loss)
        IN  /\ drawn' = drawn + 1
            /\ global_step' = step
            /\ processed' = processed \cup {step}
            /\ lr' = IF c.lr_decay THEN [g \in DOMAIN lr |-> sched] ELSE lr
            /\ prev_avg' = avg_loss
            /\ last_loss' = loss
            /\ avg_loss' = avg
            /\ IF SaveTrigger(step)
               THEN /\ save_calls' = save_calls \cup {step}
                    /\ best_loss' = sv.best
                    /\ written' = IF sv.wrote THEN written \cup {step} ELSE written
                    /\ pc' = IF BreakCond(step) THEN "returned" ELSE "train"
               ELSE /\ UNCHANGED <<save_calls, best_loss, written>>
                    /\ pc' = "train"
    /\ UNCHANGED <<c, args, validated, resources, checkpoint, model, criterion,
                   load_path, loader_len, exc, folder, exit_code, groupvars>>

\* train, lines 78 and 171: the data loader is exhausted, the loop ends
LoaderExhausted ==
    /\ pc = "train"
    /\ drawn = loader_len
    /\ pc' = "returned"
    /\ UNCHANGED <<c, args, validated, resources, checkpoint, model, criterion,
                   load_path, lr, loader_len, drawn, global_step, avg_loss,
                   best_loss, prev_avg, last_loss, processed, save_calls,
                   written, exc, folder, exit_code, groupvars>>

\* train, lines 116-122: the forward pass, the loss or the optimizer raises
StepFailure ==
    /\ pc = "train"
    /\ drawn < loader_len
    /\ pc' = "raised"
    /\ exc' = "RuntimeError"
    /\ UNCHANGED <<c, args, validated, resources, checkpoint, model, criterion,
                   load_path, lr, loader_len, drawn, global_step, avg_loss,
                   best_loss, prev_avg, last_loss, processed, save_calls,
                   written, folder, exit_code, groupvars>>

\* the user interrupts the process while main runs
KeyboardInterrupt ==
    /\ pc \in MainPcs
    /\ pc' = "raised"
    /\ exc' = "KeyboardInterrupt"
    /\ UNCHANGED <<c, args, validated, resources, checkpoint, model, criterion,
                   load_path, lr, loader_len, drawn, global_step, avg_loss,
                   best_loss, prev_avg, last_loss, processed, save_calls,
                   written, folder, exit_code, groupvars>>

\* the __main__ block without its except KeyboardInterrupt clause
IsInterruptNever(e) == FALSE

\* line 246: except KeyboardInterrupt
IsInterrupt(e) == e = "KeyboardInterrupt"

\* lines 246-251: except KeyboardInterrupt
HandleKeyboardInterrupt ==
    /\ pc = "raised"
    /\ IsInterrupt(exc)
    /\ folder' = FALSE
    /\ exit_code' = 0
    /\ pc' = "exited"
    /\ UNCHANGED <<c, args, validated, resources, checkpoint, model, criterion,
                   load_path, lr, loader_len, drawn, global_step, avg_loss,
                   best_loss, prev_avg, last_loss, processed, save_calls,
                   written, exc, groupvars>>

\* lines 252-255: except Exception
HandleException ==
    /\ pc = "raised"
    /\ ~IsInterrupt(exc)
    /\ folder' = FALSE
    /\ exit_code' = 1
    /\ pc' = "exited"
    /\ UNCHANGED <<c, args, validated, resources, checkpoint, model, criterion,
                   load_path, lr, loader_len, drawn, global_step, avg_loss,
                   best_loss, prev_avg, last_loss, processed, save_calls,
                   written, exc, groupvars>>

\* lines 238 and 245: train and main return, the process ends
MainReturn ==
    /\ pc = "returned"
    /\ exit_code' = 0
    /\ pc' = "exited"
    /\ UNCHANGED <<c, args, validated, resources, checkpoint, model, criterion,
                   load_path, lr, loader_len, drawn, global_step, avg_loss,
                   best_loss, prev_avg, last_loss, processed, save_calls,
                   written, exc, folder, groupvars>>

Next ==
    \/ InitTraining
    \/ MainSetup
    \/ LoadCheckpoint
    \/ NoRestore
    \/ RestoreFromCheckpoint
    \/ StartTrain
    \/ TrainStep
    \/ LoaderExhausted
    \/ StepFailure
    \/ KeyboardInterrupt
    \/ HandleKeyboardInterrupt
    \/ HandleException
    \/ MainReturn

Spec == Init /\ [][Next]_vars

(***************************************************************************)
(* The batch grouping transform, train() lines 82-85                       *)
(***************************************************************************)
\* view(rows, cols) and reshape with the transpose left out
ViewReshapeOnly(seq, rows, cols) == seq

\* torch.transpose(seq.view(rows, cols), 0, 1).reshape(seq.shape): item
\* [r][k] of the rows x cols view lands at flat position k * rows + r
ViewTransposeReshape(seq, rows, cols) ==
    [i \in 1 .. Len(seq) |->
        seq[((i - 1) % rows) * cols + ((i - 1) \div rows) + 1]]

\* line 84: the labels
GroupLabels(seq) ==
    ViewTransposeReshape(seq, c.num_utter_per_class, c.num_classes_in_batch)

\* line 85 with the two dimensions of the view swapped
GroupInputsSwapped(seq) ==
    ViewTransposeReshape(seq, c.num_classes_in_batch, c.num_utter_per_class)

\* line 85: the inputs, one feature row per utterance
GroupInputs(seq) ==
    ViewTransposeReshape(seq, c.num_utter_per_class, c.num_classes_in_batch)

\* batch compositions: utterances per class, classes in the batch
BatchConfigs ==
    {bc \in [num_utter_per_class : 1 .. MaxUtterPerClass,
             num_classes_in_batch : 1 .. MaxClassesInBatch] :
        bc.num_utter_per_class * bc.num_classes_in_batch <= MaxBatch}

BatchSize(bc) == bc.num_utter_per_class * bc.num_classes_in_batch

\* the classes of one batch, all distinct, in the order the sampler visits them
ClassOrders(bc) ==
    {cl \in [1 .. bc.num_classes_in_batch -> 1 .. MaxClassesInBatch] :
        \A i \in DOMAIN cl, j \in DOMAIN cl : cl[i] = cl[j] => i = j}

\* labels of a batch of PerfectBatchSampler: round robin over the classes
\* (line 83: "perfect sampler produces [3,2,1,3,2,1]")
SamplerLabels(bc, cl) ==
    [i \in 1 .. BatchSize(bc) |-> cl[((i - 1) % bc.num_classes_in_batch) + 1]]

InitGroup ==
    /\ pc = "group"
    /\ c \in BatchConfigs
    /\ args = [restore_path |-> FALSE, restore_step |-> 0]
    /\ validated = "ok"
    /\ resources = {}
    /\ checkpoint = NoCheckpoint
    /\ model = FreshModel
    /\ criterion = "fresh"
    /\ load_path = "none"
    /\ lr = [g \in 1 .. NumGroups |-> CfgLr]
    /\ loader_len = 0
    /\ drawn = 0
    /\ global_step = 0
    /\ avg_loss = 0
    /\ best_loss = Inf
    /\ prev_avg = 0
    /\ last_loss = 0
    /\ processed = {}
    /\ save_calls = {}
    /\ written = {}
    /\ exc = "none"
    /\ folder = TRUE
    /\ exit_code = -1
    /\ gphase = "drawn"
    /\ \E cl \in ClassOrders(c) : labels_in = SamplerLabels(c, cl)
    /\ inputs_in \in [1 .. BatchSize(c) -> 1 .. MaxFeature]
    /\ labels = labels_in
    /\ inputs = inputs_in

\* train, lines 82-85: inputs, labels = data, then the two regroupings
Regroup ==
    /\ gphase = "drawn"
    /\ labels' = GroupLabels(labels)
    /\ inputs' = GroupInputs(inputs)
    /\ gphase' = "grouped"
    /\ UNCHANGED <<mainvars, labels_in, inputs_in>>

NextGroup == Regroup

SpecGroup == InitGroup /\ [][NextGroup]_vars

(***************************************************************************)
(* Claims about the training loop (specification Spec)                     *)
(***************************************************************************)
Baseline == args.restore_step

\* C1: global_step grows by exactly 1 per batch drawn from the loader (the
\* batches are numbered baseline + 1, baseline + 2, ... without a gap), and
\* when train() starts below max_train_step no batch is processed under a
\* step number above max_train_step: once the budget is reached the loop is
\* left.
C1_StepAccounting ==
    /\ processed = (Baseline + 1) .. (Baseline + drawn)
    /\ processed # {} => global_step = Baseline + drawn
    /\ Baseline < c.max_train_step =>
          /\ \A s \in processed : s <= c.max_train_step
          /\ pc = "train" => global_step < c.max_train_step

C1_Witness ==
    /\ pc = "returned"
    /\ Baseline > 0
    /\ drawn >= 2
    /\ global_step = c.max_train_step
    /\ drawn < loader_len

\* C2 as stated: whenever train() returns, global_step is at least
\* max_train_step, whatever the length of the data loader.
C2_ReturnsOnlyAtBudget ==
    pc = "returned" => global_step >= c.max_train_step

\* C2 amended: train() returns when the step budget is reached or when the
\* single pass over the data loader is over; with a loader of at least
\* max_train_step - baseline batches (baseline below the budget) it returns
\* global_step = max_train_step, with a shorter one it returns
\* baseline + len(data_loader), which is below max_train_step.
C2_ReturnsAtBudgetOrExhausted ==
    pc = "returned" =>
        /\ global_step >= c.max_train_step \/ drawn = loader_len
        /\ (Baseline < c.max_train_step /\ loader_len >= c.max_train_step - Baseline)
              => global_step = c.max_train_step
        /\ loader_len < c.max_train_step - Baseline
              => global_step = Baseline + loader_len

C2_Witness ==
    /\ pc = "returned"
    /\ drawn = loader_len
    /\ drawn > 0
    /\ global_step < c.max_train_step

\* C3: save_best_model is called at a processed step exactly when the step is
\* a multiple of save_step or has reached max_train_step; a loop left at the
\* budget has called it at its last step, and when that call is the only one
\* of the run a checkpoint is written there.
C3_SaveTrigger ==
    /\ save_calls \subseteq processed
    /\ written \subseteq save_calls
    /\ \A s \in processed :
          s \in save_calls <=> (s % c.save_step = 0 \/ s >= c.max_train_step)
    /\ (pc = "returned" /\ processed # {} /\ global_step >= c.max_train_step) =>
          /\ global_step \in save_calls
          /\ save_calls = {global_step} => written = {global_step}

C3_Witness ==
    /\ pc = "returned"
    /\ Cardinality(processed) >= 2
    /\ global_step = c.max_train_step
    /\ global_step % c.save_step # 0
    /\ save_calls = {global_step}
    /\ written = {global_step}

\* C6 as stated: after the first batch avg_loss is its loss, and after every
\* later batch avg_loss = 0.01 * loss + 0.99 * (avg_loss before the batch),
\* for every sequence of losses.
C6_EmaEveryStep ==
    /\ drawn = 1 => avg_loss = last_loss
    /\ drawn > 1 => avg_loss = Ema(last_loss, prev_avg)

(***************************************************************************)
(* Claims about validation, restore and the process outcome (Spec)         *)
(***************************************************************************)
\* C7: check_values fails whenever model_params.input_dim differs from
\* audio.num_mels and does not fail on this comparison when they are equal,
\* so a validated configuration has input_dim = num_mels; the failure ends
\* the process with a failure code before main has allocated any training
\* resource.
C7_ValidatedDims ==
    /\ validated = "ok" => c.input_dim = c.num_mels
    /\ c.input_dim = c.num_mels => validated # "assert_failed"
    /\ (pc # "init" /\ c.input_dim # c.num_mels) =>
          /\ validated \in {"assert_failed", "super_failed"}
          /\ pc = "exited"
          /\ exit_code # 0
    /\ resources # {} => validated = "ok"

C7_Witness ==
    /\ pc = "exited"
    /\ validated = "assert_failed"
    /\ c.input_dim # c.num_mels
    /\ resources = {}

\* C8: restoring from a checkpoint that holds a model state dict and a step
\* never raises, however the state dict and the criterion differ from the
\* current ones: when the strict load of the model and of the criterion
\* succeeds every parameter comes from the checkpoint, otherwise exactly the
\* parameters the checkpoint holds under the same name and shape do and the
\* others keep their fresh values; main then goes on towards training.
C8_RestoreAbsorbsMismatch ==
    [][(/\ pc = "loaded"
        /\ checkpoint.hasModel
        /\ checkpoint.hasStep
        /\ pc' # "loaded"
        /\ exc' # "KeyboardInterrupt")
       =>
       (/\ pc' = "scheduler"
        /\ exc' = "none"
        /\ \A n \in ModelNames : model'[n].shape = FreshShape(n)
        /\ IF /\ Keys(checkpoint.model) = ModelNames
              /\ \A n \in ModelNames : <<n, FreshShape(n)>> \in checkpoint.model
              /\ checkpoint.crit # "mismatch"
           THEN /\ load_path' = "strict"
                /\ \A n \in ModelNames : model'[n].val = "ckpt"
           ELSE /\ load_path' = "partial"
                /\ \A n \in ModelNames :
                      model'[n].val =
                          IF <<n, FreshShape(n)>> \in checkpoint.model
                          THEN "ckpt" ELSE "init")]_vars

C8_Witness ==
    /\ pc = "scheduler"
    /\ load_path = "partial"
    /\ model["w1"].val = "ckpt"
    /\ model["w2"].val = "init"

\* C9: a KeyboardInterrupt raised in main removes the experiment folder and
\* the process exits with code 0; any other exception raised in main removes
\* the folder and the process exits with a non-zero code; when train and main
\* return normally the folder is kept.
C9_ProcessOutcome ==
    pc = "exited" =>
        /\ exc = "KeyboardInterrupt" => ~folder /\ exit_code = 0
        /\ exc \notin {"none", "KeyboardInterrupt"} => ~folder /\ exit_code # 0
        /\ (exc = "none" /\ validated = "ok") => folder /\ exit_code = 0

C9_Witness ==
    /\ pc = "exited"
    /\ exc = "KeyboardInterrupt"
    /\ processed # {}
    /\ ~folder
    /\ exit_code = 0

\* C10: the baseline handed to train() is the checkpoint's step after a
\* restore and 0 without a restore path; the first batch is numbered
\* baseline + 1 and global_step never falls below the baseline; a restore
\* leaves every parameter group's learning rate at the configured lr, on the
\* strict and on the partial path alike.
C10_RestoreBaseline ==
    [][/\ (pc = "loaded" /\ pc' = "scheduler") =>
              /\ args'.restore_step = checkpoint.step
              /\ \A g \in DOMAIN lr' : lr'[g] = c.lr
       /\ (pc = "restore" /\ pc' = "scheduler") =>
              /\ ~args.restore_path
              /\ args'.restore_step = 0
       /\ (pc = "scheduler" /\ pc' = "train") =>
              /\ global_step' = args.restore_step
              /\ args' = args
       /\ (pc = "train" /\ processed = {} /\ processed' # {}) =>
              processed' = {args.restore_step + 1}
       /\ pc' \in {"train", "returned"} => global_step' >= args'.restore_step]_vars

C10_Witness ==
    /\ pc = "train"
    /\ args.restore_path
    /\ args.restore_step = 1
    /\ load_path = "partial"
    /\ processed = {2}

(***************************************************************************)
(* Claims about the grouping transform (specification SpecGroup)           *)
(***************************************************************************)
NumUtter   == c.num_utter_per_class
NumClasses == c.num_classes_in_batch

\* how many positions of the batch hold the pair <<f, l>>
CountPair(fs, ls, f, l) ==
    Cardinality({i \in DOMAIN fs : fs[i] = f /\ ls[i] = l})

\* the positions the labels come from
LabelSource == GroupLabels([i \in 1 .. Len(labels_in) |-> i])

\* C4: the grouping moves labels and inputs by one and the same permutation
\* of the positions; the inverse transpose (the view taken as classes x
\* utterances) gives back the original order; every (feature, label) pair
\* occurs as often after the grouping as before.
C4_GroupingIsBijection ==
    gphase = "grouped" =>
        /\ {LabelSource[i] : i \in DOMAIN LabelSource} = 1 .. Len(labels_in)
        /\ Len(labels) = Len(labels_in) /\ Len(inputs) = Len(inputs_in)
        /\ \A i \in DOMAIN labels :
              /\ labels[i] = labels_in[LabelSource[i]]
              /\ inputs[i] = inputs_in[LabelSource[i]]
        /\ ViewTransposeReshape(labels, NumClasses, NumUtter) = labels_in
        /\ ViewTransposeReshape(inputs, NumClasses, NumUtter) = inputs_in
        /\ \A f \in 1 .. MaxFeature, l \in 1 .. MaxClassesInBatch :
              CountPair(inputs, labels, f, l) = CountPair(inputs_in, labels_in, f, l)

C4_Witness ==
    /\ gphase = "grouped"
    /\ NumUtter = 2 /\ NumClasses = 3
    /\ inputs # inputs_in
    /\ labels # labels_in

\* C5: for a batch in the sampler's round-robin order the output is class
\* major: output position k * U + u holds the item of input position
\* u * C + k, the U utterances of a class are contiguous, and the set of
\* features carried by each class is the same before and after.
C5_ClassMajor ==
    gphase = "grouped" =>
        /\ \A k \in 0 .. NumClasses - 1, u \in 0 .. NumUtter - 1 :
              /\ labels[k * NumUtter + u + 1] = labels_in[u * NumClasses + k + 1]
              /\ inputs[k * NumUtter + u + 1] = inputs_in[u * NumClasses + k + 1]
              /\ labels[k * NumUtter + u + 1] = labels_in[k + 1]
        /\ \A l \in 1 .. MaxClassesInBatch :
              {inputs[i] : i \in {j \in DOMAIN labels : labels[j] = l}} =
              {inputs_in[i] : i \in {j \in DOMAIN labels_in : labels_in[j] = l}}

C5_Witness ==
    /\ gphase = "grouped"
    /\ NumUtter = 3 /\ NumClasses = 2
    /\ labels_in = <<2, 1, 2, 1, 2, 1>>
    /\ labels = <<2, 2, 2, 1, 1, 1>>
    /\ inputs # inputs_in

====
